---- MODULE Spec2Model ----
(***************************************************************************)
(* Call-time member visibility (public / protected / private, C++-style    *)
(* inheritance kinds, friend grants) as decided by AccessChecker.can_access *)
(* over the friendship registry and the per-class _inheritance_info         *)
(* records, and the descriptor wrappers that call it before a member body.  *)
(***************************************************************************)
EXTENDS Integers, Sequences, FiniteSets, TLC

VARIABLES
    _relationships,        \* FriendshipManager._relationships: target name -> set of friend names
    granted,               \* history: the <<target, friend>> classes registered since the last clear
    friend_methods,        \* FriendMethod grants <<target, friend_type, method_name>>
    friend_functions,      \* FriendFunction grants <<target, function_name>>
    static_friends,        \* FriendStaticContext grants <<target, owner_type, method_name>>
    _inheritance_info,     \* class owning a dict -> its _inheritance_info (base name -> kind)
    enforcement_enabled,   \* access_control.enforcement_enabled
    staticmethod_context,  \* thread -> _thread_local.staticmethod_context
    stack,                 \* thread -> call stack of wrapper/body frames, innermost last
    _access_level,         \* decorated function -> its declared level and how it got it
    last                   \* outcome of the most recent operation

vars == <<_relationships, granted, friend_methods, friend_functions, static_friends,
          _inheritance_info, enforcement_enabled, staticmethod_context,
          stack, _access_level, last>>

-----------------------------------------------------------------------------
(* Bounds of the model *)

MaxGrants == 2      \* friend grants held by the registries together
MaxEdges  == 1      \* entries held by the _inheritance_info dicts together
MaxDepth  == 2      \* nested guarded calls on one thread
MaxRecorded     == 2   \* entries of the _inheritance_info dicts, definition-time runs
MaxDeclarations == 2   \* accepted explicit level declarations on one function

-----------------------------------------------------------------------------
(* The universe of types: a diamond D(B, C), B(A), C(A), and two unrelated  *)
(* types U and V that are distinct classes with the same __name__.          *)

None == "None"

Classes == {"A", "B", "C", "D", "U", "V"}

ClassName == [c \in Classes |-> IF c = "V" THEN "U" ELSE c]

Names == {ClassName[c] : c \in Classes}

bases == [c \in Classes |->
            CASE c = "B" -> <<"A">>
              [] c = "C" -> <<"A">>
              [] c = "D" -> <<"B", "C">>
              [] OTHER   -> << >>]

mro == [c \in Classes |->
            CASE c = "B" -> <<"B", "A">>
              [] c = "C" -> <<"C", "A">>
              [] c = "D" -> <<"D", "B", "C", "A">>
              [] OTHER   -> <<c>>]

issubclass(c, t) == \E i \in 1..Len(mro[c]) : mro[c][i] = t

PUBLIC    == "public"
PROTECTED == "protected"
PRIVATE   == "private"

AccessLevel     == {PUBLIC, PROTECTED, PRIVATE}
InheritanceType == {PUBLIC, PROTECTED, PRIVATE}

\* The guarded member each class declares (one name per declaring class).
MemberName == [c \in Classes |->
            CASE c = "A" -> "a_member"
              [] c = "B" -> "b_member"
              [] c = "C" -> "c_member"
              [] c = "D" -> "d_member"
              [] c = "U" -> "u_member"
              [] OTHER   -> "v_member"]

MemberOwner(method_name) == CHOOSE c \in Classes : MemberName[c] = method_name

\* Where the friend declarations of the modelled program are written.
FriendUses       == {<<"A", "D">>, <<"A", "V">>, <<"U", "D">>, <<"U", "V">>}
FriendMethodUses == {<<"A", "V", "m">>, <<"U", "D", "m">>}
FriendFuncUses   == {<<"A", "f">>}
FriendStaticUses == {<<"A", "V", "s">>, <<"U", "D", "s">>}
\* Where the inheritance decorators are written: <<derived, bases>>.
DecoratorUses    == {<<"B", {"A"}>>, <<"D", {"B"}>>}

\* Names of calling code.
CallerMethods == {"__init__", "m"}
FunctionNames == {"f"}
StaticNames   == {"s"}

Threads    == {"main", "worker"}
MainThread == "main"

\* Python dicts: functions on the set of their keys.
EmptyDict == [k \in {} |-> None]

Put(d, key, value) ==
    [k \in DOMAIN d \cup {key} |-> IF k = key THEN value ELSE d[k]]

CallerInfo(caller_class, caller_method) ==
    [caller_class |-> caller_class, caller_method |-> caller_method]

\* _thread_local.staticmethod_context; the unset attribute and None are both
\* the record with no class.
NoContext == [caller_class |-> None, caller_method |-> None]

CallerInfos ==
    {CallerInfo(None, None)}
        \cup {CallerInfo(None, f) : f \in FunctionNames}
        \cup {CallerInfo(c, m) : c \in Classes, m \in CallerMethods \cup {None}}

-----------------------------------------------------------------------------
(* Friendship registry *)

\* Variant: the lookup made from the friend's side of the relation.
is_friend_Reversed(target_class, caller_class) ==
    IF target_class = None \/ caller_class = None
    THEN FALSE
    ELSE /\ ClassName[caller_class] \in DOMAIN _relationships
         /\ ClassName[target_class] \in _relationships[ClassName[caller_class]]

is_friend(target_class, caller_class) ==
    IF target_class = None \/ caller_class = None
    THEN FALSE
    ELSE /\ ClassName[target_class] \in DOMAIN _relationships
         /\ ClassName[caller_class] \in _relationships[ClassName[target_class]]

get_friends_count ==
    LET RECURSIVE Sum(_)
        Sum(S) == IF S = {} THEN 0
                  ELSE LET n == CHOOSE n \in S : TRUE
                       IN Cardinality(_relationships[n]) + Sum(S \ {n})
    IN Sum(DOMAIN _relationships)

get_relationships_count == Cardinality(DOMAIN _relationships)

is_friend_method(target_class, caller_class, caller_method) ==
    <<target_class, caller_class, caller_method>> \in friend_methods

is_friend_function(target_class, function_name) ==
    <<target_class, function_name>> \in friend_functions

is_staticmethod_friend(target_class, method_name) ==
    \E o \in Classes : <<target_class, o, method_name>> \in static_friends

\* The friend attributes the friend-method declaration leaves on the function
\* found as getattr(caller_class, caller_method).
_limen_friend_target(caller_class, caller_method) ==
    {t \in Classes : <<t, caller_class, caller_method>> \in friend_methods}

\* A static method is eligible for the static context when it holds a grant.
_friend_classes(owner, method_name) ==
    {t \in Classes : <<t, owner, method_name>> \in static_friends}

TotalGrants ==
    get_friends_count + Cardinality(friend_methods)
        + Cardinality(friend_functions) + Cardinality(static_friends)

-----------------------------------------------------------------------------
(* Inheritance registry *)

\* hasattr / getattr of _inheritance_info follow the MRO: the first class of
\* the MRO that owns a dict.
InfoHolder(cls) ==
    LET idx == {i \in 1..Len(mro[cls]) : mro[cls][i] \in DOMAIN _inheritance_info}
    IN IF idx = {} THEN None
       ELSE mro[cls][CHOOSE i \in idx : \A j \in idx : i <= j]

InfoOf(cls) ==
    IF InfoHolder(cls) = None THEN EmptyDict ELSE _inheritance_info[InfoHolder(cls)]

TotalEdges ==
    LET RECURSIVE Sum(_)
        Sum(S) == IF S = {} THEN 0
                  ELSE LET c == CHOOSE c \in S : TRUE
                       IN Cardinality(DOMAIN _inheritance_info[c]) + Sum(S \ {c})
    IN Sum(DOMAIN _inheritance_info)

Rank(level) == CASE level = PUBLIC -> 0 [] level = PROTECTED -> 1 [] OTHER -> 2

\* Variant: the kind of the edge replaces what was composed so far.
max_restrictiveness_Latest(a, b) == b

max_restrictiveness(a, b) == IF Rank(a) >= Rank(b) THEN a ELSE b

\* Kind of the direct edge derived -> base: the recorded kind, public for a
\* base that was composed without an inheritance decorator, None otherwise.
direct_kind(derived, base) ==
    IF ClassName[base] \in DOMAIN InfoOf(derived)
    THEN InfoOf(derived)[ClassName[base]]
    ELSE IF \E i \in 1..Len(bases[derived]) : bases[derived][i] = base
         THEN PUBLIC
         ELSE None

\* The edge a walk from cls up to ancestor takes first: the first-declared
\* direct base through which ancestor is reachable.
FirstEdge(cls, ancestor) ==
    LET idx == {i \in 1..Len(bases[cls]) : issubclass(bases[cls][i], ancestor)}
    IN bases[cls][CHOOSE i \in idx : \A j \in idx : i <= j]

RECURSIVE ComposeKinds(_, _, _)
ComposeKinds(cls, ancestor, result) ==
    IF cls = ancestor THEN result
    ELSE LET b == FirstEdge(cls, ancestor)
             k == direct_kind(cls, b)
         IN ComposeKinds(b, ancestor, max_restrictiveness(result, k))

get_inheritance_type(derived_class, base_class) ==
    IF ~issubclass(derived_class, base_class) THEN None
    ELSE ComposeKinds(derived_class, base_class, PUBLIC)

ConfigurationError == "ConfigurationError"

effective_visibility(instance_type, member_name, declared_level, declaring_type) ==
    IF ~issubclass(instance_type, declaring_type) THEN ConfigurationError
    ELSE ComposeKinds(instance_type, declaring_type, declared_level)

get_inherited_access_level(target_class, method_name, original_access, caller_class) ==
    effective_visibility(target_class, method_name, original_access,
                         MemberOwner(method_name))

-----------------------------------------------------------------------------
(* Access checker *)

\* Variant: the friend lookup is made for a member of any declared level.
_check_friend_access_AnyLevel(target_class, access_level, caller_info, ctx) ==
    IF /\ caller_info.caller_class # None
       /\ caller_info.caller_method # None
       /\ target_class \in _limen_friend_target(caller_info.caller_class,
                                                caller_info.caller_method)
    THEN TRUE
    ELSE LET use_ctx == caller_info.caller_class = None /\ ctx # NoContext
             caller_class  == IF use_ctx THEN ctx.caller_class
                              ELSE caller_info.caller_class
             caller_method == IF use_ctx THEN ctx.caller_method
                              ELSE caller_info.caller_method
         IN IF caller_method = None THEN FALSE
            ELSE IF caller_class = None
                 THEN \/ is_friend_function(target_class, caller_method)
                      \/ is_staticmethod_friend(target_class, caller_method)
                 ELSE \/ is_friend_method(target_class, caller_class, caller_method)
                      \/ is_friend(target_class, caller_class)

_check_friend_access(target_class, access_level, caller_info, ctx) ==
    IF access_level \notin {PRIVATE, PROTECTED} THEN FALSE
    ELSE IF /\ caller_info.caller_class # None
            /\ caller_info.caller_method # None
            /\ target_class \in _limen_friend_target(caller_info.caller_class,
                                                     caller_info.caller_method)
    THEN TRUE
    ELSE LET use_ctx == caller_info.caller_class = None /\ ctx # NoContext
             caller_class  == IF use_ctx THEN ctx.caller_class
                              ELSE caller_info.caller_class
             caller_method == IF use_ctx THEN ctx.caller_method
                              ELSE caller_info.caller_method
         IN IF caller_method = None THEN FALSE
            ELSE IF caller_class = None
                 THEN \/ is_friend_function(target_class, caller_method)
                      \/ is_staticmethod_friend(target_class, caller_method)
                 ELSE \/ is_friend_method(target_class, caller_class, caller_method)
                      \/ is_friend(target_class, caller_class)

_check_private_access(target_class, caller_class, caller_info) ==
    IF caller_class = None THEN FALSE
    ELSE IF caller_class = target_class THEN TRUE
    ELSE IF /\ caller_info.caller_method # None
            /\ \/ /\ caller_info.caller_method = "__init__"
                  /\ \/ issubclass(caller_class, target_class)
                     \/ issubclass(target_class, caller_class)
               \/ issubclass(caller_class, target_class)
    THEN TRUE
    ELSE FALSE

\* Variant: protected members are for descendants of the declaring type only.
_check_protected_access_DescendantsOnly(target_class, caller_class, caller_info) ==
    IF caller_class = None THEN FALSE
    ELSE IF issubclass(caller_class, target_class)
    THEN get_inheritance_type(caller_class, target_class) \in {PUBLIC, PROTECTED}
    ELSE FALSE

_check_protected_access(target_class, caller_class, caller_info) ==
    IF caller_class = None THEN FALSE
    ELSE IF issubclass(caller_class, target_class) \/ issubclass(target_class, caller_class)
    THEN IF issubclass(caller_class, target_class)
         THEN get_inheritance_type(caller_class, target_class) \in {PUBLIC, PROTECTED}
         ELSE TRUE
    ELSE FALSE

_check_access_by_level(access_level, target_class, caller_class, caller_info) ==
    CASE access_level = PUBLIC    -> TRUE
      [] access_level = PRIVATE   -> _check_private_access(target_class, caller_class, caller_info)
      [] access_level = PROTECTED -> _check_protected_access(target_class, caller_class, caller_info)
      [] OTHER                    -> FALSE

\* Variants of the strict handling of a private member: without the
\* same-class branch for a given instance, with the looser rule that any
\* instance suffices for code of the declaring class, and without the
\* constructor exception.
PrivateStrict_NoInstance(target_class, caller_info, instance_class) ==
    IF /\ caller_info.caller_method = "__init__"
       /\ instance_class # None
       /\ caller_info.caller_class # None
       /\ \/ issubclass(instance_class, target_class)
          \/ issubclass(target_class, instance_class)
    THEN TRUE
    ELSE IF caller_info.caller_class = target_class
         THEN instance_class = None
         ELSE FALSE

PrivateStrict_AnyInstance(target_class, caller_info, instance_class) ==
    IF /\ caller_info.caller_method = "__init__"
       /\ instance_class # None
       /\ caller_info.caller_class # None
       /\ \/ issubclass(instance_class, target_class)
          \/ issubclass(target_class, instance_class)
    THEN TRUE
    ELSE caller_info.caller_class = target_class

PrivateStrict_NoConstructor(target_class, caller_info, instance_class) ==
    IF caller_info.caller_class = target_class
    THEN instance_class = None \/ instance_class = target_class
    ELSE FALSE

\* Lines 38-62: the strict handling of a private member.
PrivateStrict(target_class, caller_info, instance_class) ==
    IF /\ caller_info.caller_method = "__init__"
       /\ instance_class # None
       /\ caller_info.caller_class # None
       /\ \/ issubclass(instance_class, target_class)
          \/ issubclass(target_class, instance_class)
    THEN TRUE
    ELSE IF caller_info.caller_class = target_class
         THEN instance_class = None \/ instance_class = target_class
         ELSE FALSE

\* Variant: public inheritance passes on public members only.
InheritanceAccess_PublicOnly(inheritance_type, access_level) ==
    CASE inheritance_type = PRIVATE   -> access_level \in {PROTECTED, PUBLIC}
      [] inheritance_type = PROTECTED -> access_level \in {PROTECTED, PUBLIC}
      [] inheritance_type = PUBLIC    -> access_level = PUBLIC

\* Variant: a caller derived through a private edge reaches public members only.
InheritanceAccess_PrivateBlocks(inheritance_type, access_level) ==
    CASE inheritance_type = PRIVATE   -> access_level = PUBLIC
      [] inheritance_type = PROTECTED -> access_level \in {PROTECTED, PUBLIC}
      [] inheritance_type = PUBLIC    -> access_level = PUBLIC \/ access_level = PROTECTED

\* Lines 68-92: the caller is derived from the declaring type.
InheritanceAccess(inheritance_type, access_level) ==
    CASE inheritance_type = PRIVATE   -> access_level \in {PROTECTED, PUBLIC}
      [] inheritance_type = PROTECTED -> access_level \in {PROTECTED, PUBLIC}
      [] inheritance_type = PUBLIC    -> access_level = PUBLIC \/ access_level = PROTECTED

\* Variant: the effective level is asked for the caller's class instead of
\* the instance's.
can_access_raises_OfCaller(target_class, method_name, access_level, caller_info, instance_class, ctx) ==
    LET caller_class == caller_info.caller_class
        actual_target_class == IF caller_class # None THEN caller_class
                               ELSE target_class
    IN /\ ~_check_friend_access(target_class, access_level, caller_info, ctx)
       /\ access_level # PRIVATE
       /\ caller_class # target_class
       /\ ~(caller_class # None /\ issubclass(caller_class, target_class)
              /\ get_inheritance_type(caller_class, target_class) \in InheritanceType)
       /\ get_inherited_access_level(actual_target_class, method_name,
                                     access_level, caller_class) = ConfigurationError

\* True when the evaluation ends in ConfigurationError instead of a verdict.
can_access_raises(target_class, method_name, access_level, caller_info, instance_class, ctx) ==
    LET caller_class == caller_info.caller_class
        actual_target_class == IF instance_class # None THEN instance_class
                               ELSE target_class
    IN /\ ~_check_friend_access(target_class, access_level, caller_info, ctx)
       /\ access_level # PRIVATE
       /\ caller_class # target_class
       /\ ~(caller_class # None /\ issubclass(caller_class, target_class)
              /\ get_inheritance_type(caller_class, target_class) \in InheritanceType)
       /\ get_inherited_access_level(actual_target_class, method_name,
                                     access_level, caller_class) = ConfigurationError

can_access(target_class, method_name, access_level, caller_info, instance_class, ctx) ==
    LET caller_class == caller_info.caller_class
        actual_target_class == IF instance_class # None THEN instance_class
                               ELSE target_class
    IN IF _check_friend_access(target_class, access_level, caller_info, ctx)
       THEN TRUE
       ELSE IF access_level = PRIVATE
       THEN PrivateStrict(target_class, caller_info, instance_class)
       ELSE IF caller_class = target_class
       THEN TRUE
       ELSE IF /\ caller_class # None
               /\ issubclass(caller_class, target_class)
               /\ get_inheritance_type(caller_class, target_class) \in InheritanceType
       THEN InheritanceAccess(get_inheritance_type(caller_class, target_class),
                              access_level)
       ELSE _check_access_by_level(
                get_inherited_access_level(actual_target_class, method_name,
                                           access_level, caller_class),
                target_class, caller_class, caller_info)

-----------------------------------------------------------------------------
(* State after import: empty registries, enforcement on, no call running *)

\* The function the level decorators are stacked on, and a function no
\* decorator has touched yet: no _access_level attribute, no friend flag.
DecoratedFunctions == {"m"}

Undeclared ==
    [level |-> None, _created_by_friend_decorator |-> FALSE,
     descriptor |-> FALSE, explicit |-> 0]

Idle ==
    [op |-> "none", target_class |-> None, access_level |-> None,
     caller_info |-> CallerInfo(None, None), instance_class |-> None,
     ctx |-> NoContext, result |-> None]

Init ==
    /\ _relationships = EmptyDict
    /\ granted = {}
    /\ friend_methods = {}
    /\ friend_functions = {}
    /\ static_friends = {}
    /\ _inheritance_info = EmptyDict
    /\ enforcement_enabled = TRUE
    /\ staticmethod_context = [t \in Threads |-> NoContext]
    /\ stack = [t \in Threads |-> << >>]
    /\ _access_level = [f \in DecoratedFunctions |-> Undeclared]
    /\ last = Idle

calls    == <<enforcement_enabled, staticmethod_context, stack>>
friends  == <<_relationships, granted, friend_methods, friend_functions, static_friends>>

-----------------------------------------------------------------------------
(* Registration *)

\* Variants: the friend set of the target is replaced instead of extended;
\* the whole registry is rebuilt around the target's entry.
register_friend_Replace(target_class, friend_class) ==
    _relationships' = Put(_relationships, ClassName[target_class],
                          {ClassName[friend_class]})

register_friend_Fresh(target_class, friend_class) ==
    LET target_name == ClassName[target_class]
        friend_name == ClassName[friend_class]
        old == IF target_name \in DOMAIN _relationships
               THEN _relationships[target_name] ELSE {}
    IN _relationships' = Put(EmptyDict, target_name, old \cup {friend_name})

register_friend(target_class, friend_class) ==
    LET target_name == ClassName[target_class]
        friend_name == ClassName[friend_class]
        old == IF target_name \in DOMAIN _relationships
               THEN _relationships[target_name] ELSE {}
    IN _relationships' = Put(_relationships, target_name, old \cup {friend_name})

\* @friend(target_class) applied to friend_class.
friend(target_class, friend_class) ==
    /\ last = Idle
    /\ is_friend(target_class, friend_class) \/ TotalGrants < MaxGrants
    /\ register_friend(target_class, friend_class)
    /\ granted' = granted \cup {<<target_class, friend_class>>}
    /\ last' = [op |-> "register_friend", target_class |-> target_class,
                friend_class |-> friend_class,
                was_friend |-> is_friend(target_class, friend_class)]
    /\ UNCHANGED <<_access_level, friend_methods, friend_functions, static_friends,
                   _inheritance_info, calls>>

clear ==
    /\ last = Idle
    /\ _relationships # EmptyDict
    /\ _relationships' = EmptyDict
    /\ granted' = {}
    /\ last' = Idle
    /\ UNCHANGED <<_access_level, friend_methods, friend_functions, static_friends,
                   _inheritance_info, calls>>

grant_method_friend(target, friend_type, method_name) ==
    /\ last = Idle
    /\ <<target, friend_type, method_name>> \in friend_methods \/ TotalGrants < MaxGrants
    /\ friend_methods' = friend_methods \cup {<<target, friend_type, method_name>>}
    /\ last' = Idle
    /\ UNCHANGED <<_access_level, _relationships, granted, friend_functions, static_friends,
                   _inheritance_info, calls>>

grant_function_friend(target, function_name) ==
    /\ last = Idle
    /\ <<target, function_name>> \in friend_functions \/ TotalGrants < MaxGrants
    /\ friend_functions' = friend_functions \cup {<<target, function_name>>}
    /\ last' = Idle
    /\ UNCHANGED <<_access_level, _relationships, granted, friend_methods, static_friends,
                   _inheritance_info, calls>>

grant_static_friend(target, owner_type, method_name) ==
    /\ last = Idle
    /\ <<target, owner_type, method_name>> \in static_friends \/ TotalGrants < MaxGrants
    /\ static_friends' = static_friends \cup {<<target, owner_type, method_name>>}
    /\ last' = Idle
    /\ UNCHANGED <<_access_level, _relationships, granted, friend_methods, friend_functions,
                   _inheritance_info, calls>>

\* The dict the decorator writes: derived_class gets its own only when no
\* class of its MRO has one.
InfoAfter(derived_class, base_names, kind) ==
    LET holder == IF InfoHolder(derived_class) = None THEN derived_class
                  ELSE InfoHolder(derived_class)
        old == InfoOf(derived_class)
        new == [n \in DOMAIN old \cup base_names |->
                    IF n \in base_names THEN kind ELSE old[n]]
    IN Put(_inheritance_info, holder, new)

\* The decoration keeps the number of recorded entries within the bound.
Fits(base_classes, derived_class, bound) ==
    LET base_names == {ClassName[b] : b \in base_classes}
        added == base_names \ DOMAIN InfoOf(derived_class)
    IN TotalEdges + Cardinality(added) <= bound

\* @private(bases) / @protected(bases) / @public(bases) applied to derived_class.
_create_inheritance_decorator(base_classes, kind, derived_class) ==
    LET base_names == {ClassName[b] : b \in base_classes}
    IN /\ last = Idle
       /\ _inheritance_info' = InfoAfter(derived_class, base_names, kind)
       /\ last' = [op |-> "inherit", derived_class |-> derived_class,
                   base_classes |-> base_classes, kind |-> kind]
       /\ UNCHANGED <<_access_level, friends, calls>>

-----------------------------------------------------------------------------
(* A call of the checker with an explicit CallerInfo *)

Bool(b) == IF b THEN "True" ELSE "False"

Verdict(target_class, access_level, caller_info, instance_class, ctx) ==
    IF can_access_raises(target_class, MemberName[target_class], access_level,
                         caller_info, instance_class, ctx)
    THEN ConfigurationError
    ELSE Bool(can_access(target_class, MemberName[target_class], access_level,
                         caller_info, instance_class, ctx))

\* The static contexts a thread can hold: those of eligible static methods.
Contexts ==
    {NoContext} \cup {[caller_class |-> g[2], caller_method |-> g[3]] : g \in static_friends}

\* Variant: an allowed caller is remembered as a friend of the target.
CanAccess_Remembering(target_class, access_level, caller_info, instance_class, ctx) ==
    LET result == Verdict(target_class, access_level, caller_info, instance_class, ctx)
    IN /\ last = Idle
       /\ last' = [op |-> "can_access", target_class |-> target_class,
                   access_level |-> access_level, caller_info |-> caller_info,
                   instance_class |-> instance_class, ctx |-> ctx,
                   result |-> result]
       /\ IF result = "True" /\ caller_info.caller_class # None
          THEN _relationships' =
                  Put(_relationships, ClassName[target_class],
                      (IF ClassName[target_class] \in DOMAIN _relationships
                       THEN _relationships[ClassName[target_class]] ELSE {})
                          \cup {ClassName[caller_info.caller_class]})
          ELSE UNCHANGED _relationships
       /\ UNCHANGED <<_access_level, granted, friend_methods, friend_functions, static_friends,
                      _inheritance_info, calls>>

CanAccess(target_class, access_level, caller_info, instance_class, ctx) ==
    /\ last = Idle
    /\ last' = [op |-> "can_access", target_class |-> target_class,
                access_level |-> access_level, caller_info |-> caller_info,
                instance_class |-> instance_class, ctx |-> ctx,
                result |-> Verdict(target_class, access_level, caller_info,
                                   instance_class, ctx)]
    /\ UNCHANGED <<_access_level, friends, _inheritance_info, calls>>

\* The caller takes the result; the next operation can start.
Return ==
    /\ last # Idle
    /\ last' = Idle
    /\ UNCHANGED <<_access_level, friends, _inheritance_info, calls>>

Grant ==
    \/ \E u \in FriendUses : friend(u[1], u[2])
    \/ clear
    \/ \E u \in FriendMethodUses : grant_method_friend(u[1], u[2], u[3])
    \/ \E u \in FriendFuncUses : grant_function_friend(u[1], u[2])
    \/ \E u \in FriendStaticUses : grant_static_friend(u[1], u[2], u[3])

Register ==
    /\ last = Idle
    /\ \/ Grant
       \/ \E u \in DecoratorUses, k \in InheritanceType :
               /\ Fits(u[2], u[1], MaxEdges)
               /\ _create_inheritance_decorator(u[2], k, u[1])

Check ==
    /\ last = Idle
    /\ \E t \in Classes, l \in AccessLevel, ci \in CallerInfos,
          i \in Classes \cup {None}, ctx \in Contexts :
            /\ ctx # NoContext => ci.caller_class = None
            /\ CanAccess(t, l, ci, i, ctx)

Next ==
    \/ Register
    \/ Check
    \/ Return

Spec == Init /\ [][Next]_vars

-----------------------------------------------------------------------------
(* The program whose calls are guarded: its members and its plain methods *)

Member(owner, kind, level) == [owner |-> owner, kind |-> kind, level |-> level]

METHOD       == "method"
CLASS_METHOD == "class method"
STATIC       == "static method"

Members ==
    {Member("A", METHOD, l) : l \in AccessLevel}
        \cup {Member("A", CLASS_METHOD, l) : l \in {PRIVATE, PROTECTED}}
        \cup {Member("D", METHOD, PRIVATE), Member("D", STATIC, PUBLIC)}
        \cup {Member("V", STATIC, l) : l \in {PUBLIC, PRIVATE}}

\* The name a member is registered under: the static methods are the "s" of
\* the friend-static declarations.
NameOf(member) ==
    IF member.kind = STATIC THEN "s" ELSE MemberName[member.owner]

\* Names each class defines in its own __dict__.
Defines == [c \in Classes |->
    {MemberName[c]}
        \cup (IF c \in {"A", "D", "U"} THEN {"__init__"} ELSE {})
        \cup (IF c \in {"A", "U"} THEN {"m"} ELSE {})
        \cup (IF c \in {"D", "V"} THEN {"s"} ELSE {})]

\* Frames of a thread's call stack that the resolver does not skip.
PLAIN    == "plain"      \* an unguarded method running with self
FUNCTION == "function"   \* a module-level function

Frame(kind, cls, name, recv, level, saved, old_context) ==
    [kind |-> kind, cls |-> cls, name |-> name, recv |-> recv, level |-> level,
     saved |-> saved, old_context |-> old_context]

_find_method_defining_class(instance_class, method_name) ==
    LET idx == {i \in 1..Len(mro[instance_class]) :
                    method_name \in Defines[mro[instance_class][i]]}
    IN IF idx = {} THEN instance_class
       ELSE mro[instance_class][CHOOSE i \in idx : \A j \in idx : i <= j]

\* The nearest frame with a receiver, from the innermost frame outwards.
RECURSIVE get_caller_info(_, _)
get_caller_info(frames, i) ==
    IF i = 0 THEN CallerInfo(None, None)
    ELSE LET fr == frames[i]
         IN IF fr.kind \in {PLAIN, METHOD}
            THEN CallerInfo(_find_method_defining_class(fr.recv, fr.name), fr.name)
            ELSE IF fr.kind = CLASS_METHOD
            THEN CallerInfo(fr.recv, fr.name)
            ELSE get_caller_info(frames, i - 1)

-----------------------------------------------------------------------------
(* The wrappers the descriptors put around a guarded member *)

\* Every descriptor is bound to its owner: the class body and the decorators
\* both run __set_name__ before the member can be looked up.

\* AccessControlledDescriptor._check_access: what it passes to can_access.
SAME_CLASS_ACCESS == "<same_class_access>"

\* Variant: the resolver's answer is handed on as it is.
EffectiveCaller_Resolved(resolved, obj) == resolved

EffectiveCaller(resolved, obj) ==
    IF resolved.caller_class = None /\ obj # None
    THEN CallerInfo(obj, SAME_CLASS_ACCESS)
    ELSE resolved

\* Outcome of the access check of one invocation: "skipped" with enforcement
\* off, otherwise the verdict of can_access (or its ConfigurationError).
_check_access(member, obj, resolved, ctx) ==
    IF ~enforcement_enabled THEN "skipped"
    ELSE Verdict(member.owner, member.level, EffectiveCaller(resolved, obj), obj, ctx)

\* ClassMethodDescriptor._check_access_classmethod: no same-class fallback,
\* the instance class is objtype.
_check_access_classmethod(member, objtype, resolved, ctx) ==
    IF ~enforcement_enabled THEN "skipped"
    ELSE Verdict(member.owner, member.level, resolved, objtype, ctx)

CheckOf(member, obj, resolved, ctx) ==
    IF member.kind = CLASS_METHOD
    THEN _check_access_classmethod(member, obj, resolved, ctx)
    ELSE _check_access(member, obj, resolved, ctx)

\* The caller identity the wrapper of this kind of member hands to can_access.
PassedCaller(member, obj, resolved) ==
    IF member.kind = CLASS_METHOD THEN resolved ELSE EffectiveCaller(resolved, obj)

\* Variant: the wrapper goes on to the body unless the check blew up.
Proceeds_UnlessError(check) == check # ConfigurationError

\* What the wrapper does with the outcome of the check.
Proceeds(check) == check \in {"True", "skipped"}

Raised(check) ==
    CASE check = "False"            -> "PermissionError"
      [] check = ConfigurationError -> ConfigurationError
      [] OTHER                      -> None

\* The receivers a member can be reached through: an instance (or, for a
\* class method, the class) of the owner or of a class derived from it; a
\* static method also through the class itself, with no object.
Receivers(member) ==
    {c \in Classes : issubclass(c, member.owner)}
        \cup (IF member.kind = STATIC THEN {None} ELSE {})

\* Variant: one context object for the whole process.
_thread_local_Shared(t) == staticmethod_context[MainThread]

\* getattr(_thread_local, 'staticmethod_context', None) on thread t.
_thread_local(t) == staticmethod_context[t]

\* wrapper(*args): a guarded member is invoked on thread t through obj.
Call(t, member, obj) ==
    LET has_friends == /\ member.kind = STATIC
                       /\ _friend_classes(member.owner, NameOf(member)) # {}
        old_context == _thread_local(t)
        ctx == IF has_friends
               THEN [caller_class |-> member.owner, caller_method |-> NameOf(member)]
               ELSE old_context
        resolved == get_caller_info(stack[t], Len(stack[t]))
        check == CheckOf(member, obj, resolved, ctx)
    IN /\ last' = [op |-> "call", thread |-> t, member |-> member, name |-> NameOf(member),
                   obj |-> obj, depth |-> Len(stack[t]), resolved |-> resolved,
                   caller_info |-> PassedCaller(member, obj, resolved), ctx |-> ctx,
                   enforced |-> enforcement_enabled, check |-> check,
                   raised |-> Raised(check),
                   error |-> IF check = "False"
                             THEN <<member.level, member.kind, NameOf(member)>>
                             ELSE << >>]
       /\ IF Proceeds(check)
          THEN /\ stack' = [stack EXCEPT ![t] = Append(@,
                    Frame(member.kind, member.owner, NameOf(member), obj,
                          member.level, has_friends, old_context))]
               /\ staticmethod_context' = [staticmethod_context EXCEPT ![t] = ctx]
          ELSE UNCHANGED <<stack, staticmethod_context>>
       /\ UNCHANGED <<_access_level, friends, _inheritance_info, enforcement_enabled>>

\* Unguarded code starts running: a plain method of cls on an instance of
\* type recv, or a module-level function.
Enter(t, cls, name, recv) ==
    /\ Len(stack[t]) < MaxDepth
    /\ name \in Defines[cls]
    /\ issubclass(recv, cls)
    /\ stack' = [stack EXCEPT ![t] =
                    Append(@, Frame(PLAIN, cls, name, recv, None, FALSE, NoContext))]
    /\ last' = Idle
    /\ UNCHANGED <<_access_level, friends, _inheritance_info, enforcement_enabled, staticmethod_context>>

EnterFunction(t, name) ==
    /\ Len(stack[t]) < MaxDepth
    /\ stack' = [stack EXCEPT ![t] =
                    Append(@, Frame(FUNCTION, None, name, None, None, FALSE, NoContext))]
    /\ last' = Idle
    /\ UNCHANGED <<_access_level, friends, _inheritance_info, enforcement_enabled, staticmethod_context>>

\* Variant: the saved context is put back on the return path only.
Exit_RestoreOnReturn(t, how) ==
    LET fr == stack[t][Len(stack[t])]
    IN /\ stack[t] # << >>
       /\ stack' = [stack EXCEPT ![t] = SubSeq(@, 1, Len(@) - 1)]
       /\ staticmethod_context' =
             IF fr.saved /\ how = "return"
             THEN [staticmethod_context EXCEPT ![t] = fr.old_context]
             ELSE staticmethod_context
       /\ last' = Idle
       /\ UNCHANGED <<_access_level, friends, _inheritance_info, enforcement_enabled>>

\* The innermost frame ends, by return or by an exception of its body; the
\* static wrapper's finally clause puts the saved context back.
Exit(t, how) ==
    LET fr == stack[t][Len(stack[t])]
    IN /\ stack[t] # << >>
       /\ stack' = [stack EXCEPT ![t] = SubSeq(@, 1, Len(@) - 1)]
       /\ staticmethod_context' =
             IF fr.saved
             THEN [staticmethod_context EXCEPT ![t] = fr.old_context]
             ELSE staticmethod_context
       /\ last' = Idle
       /\ UNCHANGED <<_access_level, friends, _inheritance_info, enforcement_enabled>>

set_enforcement(enabled) ==
    /\ enforcement_enabled # enabled
    /\ enforcement_enabled' = enabled
    /\ last' = Idle
    /\ UNCHANGED <<_access_level, friends, _inheritance_info, staticmethod_context, stack>>

Invoke ==
    /\ last = Idle
    /\ Len(stack[MainThread]) < MaxDepth
    /\ \E m \in Members : \E obj \in Receivers(m) : Call(MainThread, m, obj)

Run ==
    /\ last = Idle
    /\ \/ \E c \in Classes, n \in CallerMethods, r \in Classes : Enter(MainThread, c, n, r)
       \/ \E f \in FunctionNames : EnterFunction(MainThread, f)
       \/ \E how \in {"return", "exception"} : Exit(MainThread, how)

\* Declarations and the enforcement switch are module-level code.
Setup ==
    /\ stack[MainThread] = << >>
    /\ \/ Register
       \/ /\ last = Idle
          /\ \E b \in BOOLEAN : set_enforcement(b)

NextT ==
    \/ Setup
    \/ Invoke
    \/ Run
    \/ Return

SpecT == Init /\ [][NextT]_vars

-----------------------------------------------------------------------------
(* Two threads of a hosting application calling static and class methods,    *)
(* the members that are reached without a receiver object                    *)

MaxNesting     == 3    \* frames on the main thread
MaxWorkerDepth == 1    \* frames on the worker thread

Nesting == [t \in Threads |-> IF t = MainThread THEN MaxNesting ELSE MaxWorkerDepth]

ReceiverlessMembers == {m \in Members : m.kind \in {STATIC, CLASS_METHOD}}

\* A static method called on the class or on an instance of it, a class
\* method called on its class.
DirectReceivers(member) ==
    {member.owner} \cup (IF member.kind = STATIC THEN {None} ELSE {})

\* Friend declarations run as module-level code, before any thread calls.
SetupC ==
    /\ last = Idle
    /\ \A t \in Threads : stack[t] = << >>
    /\ \/ \E u \in FriendUses : friend(u[1], u[2])
       \/ \E u \in FriendStaticUses : grant_static_friend(u[1], u[2], u[3])

InvokeC ==
    /\ last = Idle
    /\ \E t \in Threads :
          /\ Len(stack[t]) < Nesting[t]
          /\ \E m \in ReceiverlessMembers : \E obj \in DirectReceivers(m) : Call(t, m, obj)

RunC ==
    /\ last = Idle
    /\ \E t \in Threads :
          \/ /\ Len(stack[t]) < Nesting[t]
             /\ \E f \in FunctionNames : EnterFunction(t, f)
          \/ \E how \in {"return", "exception"} : Exit(t, how)

NextC ==
    \/ SetupC
    \/ InvokeC
    \/ RunC
    \/ Return

SpecC == Init /\ [][NextC]_vars

-----------------------------------------------------------------------------
(* Two threads inside FriendshipManager: register_friend and is_friend run   *)
(* statement by statement, a thread switch being possible between any two    *)

REGISTER  == "register_friend"
IS_FRIEND == "is_friend"

\* The frame of a thread inside one of the two methods, with the statement
\* it executes next.
ManagerFrame(kind, target_class, friend_class, pc) ==
    [kind |-> kind, target_class |-> target_class, friend_class |-> friend_class,
     pc |-> pc]

At(t, kind, pc) ==
    /\ stack[t] # << >>
    /\ stack[t][1].kind = kind
    /\ stack[t][1].pc = pc

Goto(t, pc) == stack' = [stack EXCEPT ![t][1].pc = pc]

\* Lines 15-16: the call starts and takes the two names.
register_friend_call(t, target_class, friend_class) ==
    /\ stack[t] = << >>
    /\ stack' = [stack EXCEPT ![t] =
                    <<ManagerFrame(REGISTER, target_class, friend_class, "test")>>]
    /\ last' = Idle
    /\ UNCHANGED <<_access_level, friends, _inheritance_info, enforcement_enabled,
                   staticmethod_context>>

\* Line 18: if target_name not in self._relationships.
register_friend_test(t) ==
    /\ At(t, REGISTER, "test")
    /\ Goto(t, IF ClassName[stack[t][1].target_class] \notin DOMAIN _relationships
               THEN "create" ELSE "add")
    /\ last' = Idle
    /\ UNCHANGED <<_access_level, friends, _inheritance_info, enforcement_enabled,
                   staticmethod_context>>

\* Line 19: self._relationships[target_name] = set().
register_friend_create(t) ==
    /\ At(t, REGISTER, "create")
    /\ _relationships' = Put(_relationships, ClassName[stack[t][1].target_class], {})
    /\ Goto(t, "add")
    /\ last' = Idle
    /\ UNCHANGED <<_access_level, granted, friend_methods, friend_functions,
                   static_friends, _inheritance_info, enforcement_enabled,
                   staticmethod_context>>

\* Line 21 and the return: the name is added to the set found under the
\* target's name.
register_friend_add(t) ==
    /\ At(t, REGISTER, "add")
    /\ register_friend(stack[t][1].target_class, stack[t][1].friend_class)
    /\ granted' = granted \cup {<<stack[t][1].target_class, stack[t][1].friend_class>>}
    /\ stack' = [stack EXCEPT ![t] = << >>]
    /\ last' = Idle
    /\ UNCHANGED <<_access_level, friend_methods, friend_functions, static_friends,
                   _inheritance_info, enforcement_enabled, staticmethod_context>>

\* Lines 25-29 of is_friend: both classes are given, the names are taken.
is_friend_call(t, target_class, caller_class) ==
    /\ stack[t] = << >>
    /\ stack' = [stack EXCEPT ![t] =
                    <<ManagerFrame(IS_FRIEND, target_class, caller_class, "test")>>]
    /\ last' = Idle
    /\ UNCHANGED <<_access_level, friends, _inheritance_info, enforcement_enabled,
                   staticmethod_context>>

\* Line 31: target_name in self._relationships; False ends the evaluation.
is_friend_test(t) ==
    /\ At(t, IS_FRIEND, "test")
    /\ IF ClassName[stack[t][1].target_class] \in DOMAIN _relationships
       THEN /\ Goto(t, "lookup")
            /\ last' = Idle
       ELSE /\ stack' = [stack EXCEPT ![t] = << >>]
            /\ last' = [op |-> IS_FRIEND, target_class |-> stack[t][1].target_class,
                        caller_class |-> stack[t][1].friend_class, result |-> FALSE]
    /\ UNCHANGED <<_access_level, friends, _inheritance_info, enforcement_enabled,
                   staticmethod_context>>

\* Line 32: caller_name in self._relationships[target_name]; the subscript
\* raises KeyError for a key that is gone.
is_friend_lookup(t) ==
    LET target_name == ClassName[stack[t][1].target_class]
        caller_name == ClassName[stack[t][1].friend_class]
    IN /\ At(t, IS_FRIEND, "lookup")
       /\ stack' = [stack EXCEPT ![t] = << >>]
       /\ last' = [op |-> IS_FRIEND, target_class |-> stack[t][1].target_class,
                   caller_class |-> stack[t][1].friend_class,
                   result |-> IF target_name \notin DOMAIN _relationships
                              THEN "KeyError"
                              ELSE caller_name \in _relationships[target_name]]
       /\ UNCHANGED <<_access_level, friends, _inheritance_info, enforcement_enabled,
                      staticmethod_context>>

Registering(t) ==
    \/ \E u \in FriendUses : register_friend_call(t, u[1], u[2])
    \/ register_friend_test(t)
    \/ register_friend_create(t)
    \/ register_friend_add(t)

Asking(t) ==
    \/ \E u \in FriendUses : is_friend_call(t, u[1], u[2])
    \/ is_friend_test(t)
    \/ is_friend_lookup(t)

NextP ==
    \/ \E t \in Threads : Registering(t)
    \/ \E t \in Threads : Asking(t)

SpecP == Init /\ [][NextP]_vars

-----------------------------------------------------------------------------
(* Definition time: level decorators stacked on a function, friend grants    *)
(* and inheritance decorators, with nothing being called                     *)

\* The friend-method declaration leaves the function with the default level
\* and the flag that marks the level as its doing; what it hands on is the
\* function itself or a descriptor around it.
friend_method_declaration(f, as_descriptor) ==
    /\ _access_level[f] = Undeclared
    /\ _access_level' = [_access_level EXCEPT ![f] =
            [level |-> PUBLIC, _created_by_friend_decorator |-> TRUE,
             descriptor |-> as_descriptor, explicit |-> 0]]
    /\ last' = [op |-> "friend_method", func |-> f]
    /\ UNCHANGED <<friends, _inheritance_info, calls>>

\* None when the declaration is accepted, the error it raises otherwise.
_check_access_level_conflict(func, access_level) ==
    LET existing_level == func.level
        has_friend_flag == func._created_by_friend_decorator
    IN IF existing_level # None /\ ~(has_friend_flag /\ existing_level = PUBLIC)
       THEN "ValueError"
       ELSE None

\* @private / @protected / @public applied to what the decorators below it
\* handed on for the function f.
_apply_to_function(f, access_level) ==
    LET func == _access_level[f]
        raised == _check_access_level_conflict(func, access_level)
    IN /\ func.explicit < MaxDeclarations
       /\ last' = [op |-> "declare", func |-> f, access_level |-> access_level,
                   raised |-> raised, before |-> func]
       /\ _access_level' =
            IF raised # None THEN _access_level
            ELSE IF func.descriptor
            THEN [_access_level EXCEPT ![f].level = access_level,
                                       ![f].explicit = @ + 1]
            ELSE [_access_level EXCEPT ![f] =
                    [level |-> access_level, _created_by_friend_decorator |-> FALSE,
                     descriptor |-> TRUE, explicit |-> func.explicit + 1]]
       /\ UNCHANGED <<friends, _inheritance_info, calls>>

Declare ==
    /\ last = Idle
    /\ \/ \E f \in DecoratedFunctions, d \in BOOLEAN : friend_method_declaration(f, d)
       \/ \E f \in DecoratedFunctions, l \in AccessLevel : _apply_to_function(f, l)

Befriend ==
    /\ last = Idle
    /\ Grant

Inherit ==
    /\ last = Idle
    /\ \E u \in DecoratorUses, k \in InheritanceType :
            /\ Fits(u[2], u[1], MaxRecorded)
            /\ _create_inheritance_decorator(u[2], k, u[1])

NextR ==
    \/ Declare
    \/ Befriend
    \/ Inherit
    \/ Return

SpecR == Init /\ [][NextR]_vars

-----------------------------------------------------------------------------
(* Vocabulary of the properties *)

Checked == last.op = "can_access"

Allowed == last.result = "True"
Denied  == last.result = "False"

StrictDescendant(c, t) == c # t /\ issubclass(c, t)

Related(c, t) == issubclass(c, t) \/ issubclass(t, c)

\* The class holds no grant on target, as friend type, friend method or
\* owner of a friend static method.
HoldsNoGrant(target, cls) ==
    /\ <<target, cls>> \notin granted
    /\ \A g \in friend_methods : ~(g[1] = target /\ g[2] = cls)
    /\ \A g \in static_friends : ~(g[1] = target /\ g[2] = cls)

NoGrants == TotalGrants = 0

\* Every edge on a path from cls up to ancestor is public.
PublicEdgesOnly(cls, ancestor) ==
    \A x, y \in Classes :
        (/\ issubclass(cls, x) /\ issubclass(y, ancestor)
         /\ \E i \in 1..Len(bases[x]) : bases[x][i] = y)
            => direct_kind(x, y) = PUBLIC

\* Some edge on the path the walk takes from cls up to ancestor is private.
ThroughPrivateEdge(cls, ancestor) ==
    /\ StrictDescendant(cls, ancestor)
    /\ ComposeKinds(cls, ancestor, PUBLIC) = PRIVATE

-----------------------------------------------------------------------------
(* Properties of can_access *)

\* C1: a Private member of T is denied to every caller type U # T that holds
\* no friend grant on T, for every calling method of U, when the instance is
\* of type T.
C1_PrivateDeniedToOtherTypes ==
    (/\ Checked
     /\ last.access_level = PRIVATE
     /\ last.caller_info.caller_class \in Classes \ {last.target_class}
     /\ last.instance_class = last.target_class
     /\ HoldsNoGrant(last.target_class, last.caller_info.caller_class))
        => Denied

\* C2: code of T reaches every member of T, whatever its declared level,
\* through an instance of exactly T, with any calling method and any registry
\* contents.
C2_SameTypeAllowed ==
    (/\ Checked
     /\ last.caller_info.caller_class = last.target_class
     /\ last.instance_class = last.target_class)
        => Allowed

C2_Witness ==
    /\ Checked
    /\ last.caller_info.caller_class = last.target_class
    /\ last.instance_class = last.target_class
    /\ last.access_level = PRIVATE
    /\ last.caller_info.caller_method = "m"
    /\ TotalGrants > 0
    /\ TotalEdges > 0
    /\ Allowed

\* C3: once FriendType(T, F) is registered, every Private and Protected member
\* of T is allowed to a caller of type F, for every calling method, instance
\* type and set of recorded edges.
C3_FriendTypeAllowed ==
    (/\ Checked
     /\ last.access_level \in {PRIVATE, PROTECTED}
     /\ last.caller_info.caller_class \in Classes
     /\ last.caller_info.caller_method # None
     /\ <<last.target_class, last.caller_info.caller_class>> \in granted)
        => Allowed

C3_Witness ==
    /\ Checked
    /\ last.access_level = PRIVATE
    /\ last.target_class = "A"
    /\ last.caller_info = CallerInfo("V", "m")
    /\ last.instance_class = "B"
    /\ <<"A", "V">> \in granted
    /\ direct_kind("B", "A") = PRIVATE
    /\ Allowed

\* C4: a Private member of T called by a non-constructor method of T is denied
\* through an instance of a strict descendant of T (at any depth, T holding no
\* friend grant on itself) and allowed through an instance of exactly T.
C4_PrivateThroughDerivedInstance ==
    (/\ Checked
     /\ last.access_level = PRIVATE
     /\ last.caller_info.caller_class = last.target_class
     /\ last.caller_info.caller_method # "__init__"
     /\ HoldsNoGrant(last.target_class, last.target_class))
        => /\ (/\ last.instance_class \in Classes
               /\ StrictDescendant(last.instance_class, last.target_class))
                  => Denied
           /\ last.instance_class = last.target_class => Allowed

C4_Witness ==
    /\ Checked
    /\ last.access_level = PRIVATE
    /\ last.target_class = "A"
    /\ last.caller_info = CallerInfo("A", "m")
    /\ last.instance_class = "D"
    /\ HoldsNoGrant("A", "A")
    /\ Denied

C6_DiamondPrivateDenied ==
    (/\ Checked
     /\ NoGrants
     /\ last.access_level = PRIVATE
     /\ last.target_class = "A"
     /\ last.instance_class = "D"
     /\ \/ last.caller_info.caller_class = "D"
        \/ /\ last.caller_info.caller_class = "A"
           /\ last.caller_info.caller_method # "__init__")
        => Denied

C8_PrivateInheritanceBlocksOutside ==
    (/\ Checked
     /\ last.instance_class \in Classes
     /\ ThroughPrivateEdge(last.instance_class, last.target_class)
     /\ \/ last.caller_info.caller_class = None
        \/ ~Related(last.caller_info.caller_class, last.target_class)
     /\ ~_check_friend_access(last.target_class, last.access_level,
                              last.caller_info, last.ctx))
        => Denied

-----------------------------------------------------------------------------
(* Claims about the wrappers, checked under SpecT *)

GuardedKinds == {METHOD, CLASS_METHOD, STATIC}

IsCallStep == last = Idle /\ last'.op = "call"

CallAllowed(r) ==
    Verdict(r.member.owner, r.member.level, r.caller_info, r.obj, r.ctx) = "True"

CallDenied(r) ==
    Verdict(r.member.owner, r.member.level, r.caller_info, r.obj, r.ctx) = "False"

BodyEntered ==
    \E t \in Threads :
        /\ Len(stack'[t]) > Len(stack[t])
        /\ stack'[t][Len(stack'[t])].kind \in GuardedKinds

\* C9: with enforcement enabled, the body of a guarded member is entered only
\* by an invocation for which can_access returned allow; an invocation for
\* which it returned deny raises a permission error that carries the declared
\* level, the member kind and the member name, and enters no body.
C9_BodyOnlyAfterAllow ==
    [][ /\ (BodyEntered /\ enforcement_enabled)
              => (IsCallStep /\ CallAllowed(last'))
        /\ (IsCallStep /\ enforcement_enabled /\ CallDenied(last'))
              => /\ stack' = stack
                 /\ last'.raised = "PermissionError"
                 /\ last'.error = <<last'.member.level, last'.member.kind,
                                    NameOf(last'.member)>> ]_vars

\* A guarded body is running and the call it made to another guarded member
\* has just been denied.
C9_Witness ==
    /\ last.op = "call"
    /\ last.enforced
    /\ last.check = "False"
    /\ last.raised = "PermissionError"
    /\ last.depth > 0
    /\ stack[MainThread][Len(stack[MainThread])].kind \in GuardedKinds

\* C10: a Private or Protected member called from module-level code (no frame
\* of any declared type on the stack) through an instance of the declaring
\* type is denied with a permission error.
C10_ModuleLevelDenied ==
    (/\ last.op = "call"
     /\ last.enforced
     /\ last.depth = 0
     /\ last.resolved = CallerInfo(None, None)
     /\ last.member.level \in {PRIVATE, PROTECTED}
     /\ last.obj = last.member.owner
     /\ NoGrants)
        => last.raised = "PermissionError"

-----------------------------------------------------------------------------
(* Claims about the checker as a function, checked under Spec *)

-----------------------------------------------------------------------------
(* Claims about the registries, checked under SpecR *)

FriendPairs == {p \in Classes \X Classes : is_friend(p[1], p[2])}

\* C14: the friendship registry tells types apart by identity: is_friend(T', F')
\* is true only for the pairs (T, F) that were registered, not for a distinct
\* type that shares the display name of T or of F.
C14_FriendsByIdentity ==
    \A p \in FriendPairs : p \in granted

C16_RegisterIdempotent ==
    [][(last = Idle /\ last'.op = "register_friend")
        => LET t == last'.target_class
               f == last'.friend_class
           IN /\ <<t, f>> \in FriendPairs'
              /\ FriendPairs \subseteq FriendPairs'
              /\ is_friend(t, f)
                    => /\ _relationships' = _relationships
                       /\ get_friends_count' = get_friends_count
                       /\ get_relationships_count' = get_relationships_count]_vars

\* The only grant of the registry has just been registered a second time.
C16_Witness ==
    /\ last.op = "register_friend"
    /\ last.was_friend
    /\ granted = {<<last.target_class, last.friend_class>>}
    /\ get_friends_count = 1
    /\ get_relationships_count = 1

\* The recorded edges, from the class that holds the dict to the classes that
\* bear a recorded base name, and their transitive closure.
RecordedEdges ==
    {e \in Classes \X Classes :
        /\ e[1] \in DOMAIN _inheritance_info
        /\ ClassName[e[2]] \in DOMAIN _inheritance_info[e[1]]}

RECURSIVE Closure(_)
Closure(R) ==
    LET step == R \cup {e \in Classes \X Classes :
                          \E b \in Classes : <<e[1], b>> \in R /\ <<b, e[2]>> \in R}
    IN IF step = R THEN R ELSE Closure(step)

\* C17: after any sequence of inheritance-edge registrations the recorded
\* edge graph is acyclic: no type is reachable from itself.
C17_Acyclic ==
    \A c \in Classes : <<c, c>> \notin Closure(RecordedEdges)

\* C18: a recorded edge (derived, base, kind) stays in place with the same
\* kind through every later inheritance-decorator application.
C18_EdgesNeverMutated ==
    [][\A c \in DOMAIN _inheritance_info : \A n \in DOMAIN _inheritance_info[c] :
            /\ c \in DOMAIN _inheritance_info'
            /\ n \in DOMAIN _inheritance_info'[c]
            /\ _inheritance_info'[c][n] = _inheritance_info[c][n]]_vars

\* C19: once one explicit level declaration on a function has been accepted,
\* every further explicit declaration raises and leaves the level as it was.
C19_OneExplicitDeclaration ==
    (/\ last.op = "declare"
     /\ last.before.explicit >= 1)
        => /\ last.raised = "ValueError"
           /\ _access_level[last.func] = last.before

-----------------------------------------------------------------------------
(* Claims about the static context, checked under SpecT *)

\* The context the innermost running call of an eligible static method set:
\* its owner and name; empty when no such call is running.
RECURSIVE ContextOf(_, _)
ContextOf(frames, i) ==
    IF i = 0 THEN NoContext
    ELSE IF frames[i].saved
         THEN [caller_class |-> frames[i].cls, caller_method |-> frames[i].name]
         ELSE ContextOf(frames, i - 1)

\* C20: on every thread the static context is {owner, name} of the innermost
\* running call of an eligible static method, and each such call holds the
\* value the context had before it: so the context is restored in LIFO
\* order on every exit (return, access denial, exception in the body) and is
\* empty when no eligible call is running.
C20_StaticContextScoped ==
    \A t \in Threads :
        /\ staticmethod_context[t] = ContextOf(stack[t], Len(stack[t]))
        /\ \A i \in 1..Len(stack[t]) :
              stack[t][i].saved
                 => stack[t][i].old_context = ContextOf(stack[t], i - 1)

\* Two eligible static methods of different owners are running, one inside
\* the other: the inner one holds the outer one's context to put it back.
C20_Witness ==
    LET frames == stack[MainThread]
    IN /\ Len(frames) = 2
       /\ frames[1].saved
       /\ frames[2].saved
       /\ frames[1].cls # frames[2].cls
       /\ frames[2].old_context = [caller_class |-> frames[1].cls,
                                   caller_method |-> frames[1].name]
       /\ staticmethod_context[MainThread].caller_class = frames[2].cls

-----------------------------------------------------------------------------
(* Claims about the steps of can_access, checked under Spec *)

\* The static contexts the friend-static declarations of the program can set.
AllContexts ==
    {NoContext} \cup {[caller_class |-> u[2], caller_method |-> u[3]] : u \in FriendStaticUses}

\* C23: friend grants do not touch the verdict on a Public member: every step
\* that changes a friend registry (a grant of any of the four kinds, or a
\* clear) leaves the verdict of every query about a Public member as it was,
\* so it is the verdict the same caller gets with no grant at all.  (The
\* static context is an argument only for a caller without a type.)
C23_FriendsLeavePublicAlone ==
    [][friends' # friends
        => \A t \in Classes, ci \in CallerInfos, i \in Classes \cup {None} :
              \A ctx \in (IF ci.caller_class = None THEN AllContexts ELSE {NoContext}) :
                Verdict(t, PUBLIC, ci, i, ctx)' = Verdict(t, PUBLIC, ci, i, ctx)]_vars

\* A friend type of the declaring type has just been denied a Public member
\* that an instance inheriting through a non-public edge exposes.
C23_Witness ==
    /\ Checked
    /\ last.access_level = PUBLIC
    /\ last.caller_info.caller_class \in Classes
    /\ last.caller_info.caller_method # None
    /\ <<last.target_class, last.caller_info.caller_class>> \in granted
    /\ is_friend(last.target_class, last.caller_info.caller_class)
    /\ Denied

FallbackReached ==
    /\ Checked
    /\ ~_check_friend_access(last.target_class, last.access_level,
                             last.caller_info, last.ctx)
    /\ last.access_level # PRIVATE
    /\ last.caller_info.caller_class # last.target_class
    /\ ~(/\ last.caller_info.caller_class # None
         /\ issubclass(last.caller_info.caller_class, last.target_class)
         /\ get_inheritance_type(last.caller_info.caller_class, last.target_class)
                \in InheritanceType)

\* The effective visibility the fallback computes for the last evaluation.
EffectiveAccess ==
    get_inherited_access_level(
        IF last.instance_class # None THEN last.instance_class ELSE last.target_class,
        MemberName[last.target_class], last.access_level,
        last.caller_info.caller_class)

\* C25: at the fallback with effective visibility Protected the verdict is
\* allow exactly when the caller has a type related to the declaring type by
\* inheritance in either direction (a descendant under the restriction of the
\* direct inheritance path, which it never fails since descendants do not
\* reach the fallback); an unrelated caller and a caller with no type are
\* denied.
C25_FallbackProtected ==
    (FallbackReached /\ EffectiveAccess = PROTECTED)
        => LET caller_class == last.caller_info.caller_class
               related == /\ caller_class \in Classes
                          /\ \/ issubclass(last.target_class, caller_class)
                             \/ /\ issubclass(caller_class, last.target_class)
                                /\ InheritanceAccess(
                                      get_inheritance_type(caller_class, last.target_class),
                                      PROTECTED)
           IN /\ last.result \in {"True", "False"}
              /\ Allowed <=> related
              /\ Allowed <=> (caller_class \in Classes
                                /\ Related(caller_class, last.target_class))

\* Code of A, an ancestor of the declaring type B, has just been allowed a
\* Public member of B that an instance of D exposes as Protected.
C25_Witness ==
    /\ FallbackReached
    /\ EffectiveAccess = PROTECTED
    /\ last.access_level = PUBLIC
    /\ last.target_class = "B"
    /\ last.instance_class = "D"
    /\ last.caller_info = CallerInfo("A", "m")
    /\ Allowed

\* C26: at the fallback with effective visibility Private the verdict is
\* deny, for every caller type and every calling method.
C26_FallbackPrivateDenied ==
    (FallbackReached /\ EffectiveAccess = PRIVATE) => Denied

-----------------------------------------------------------------------------
(* Claims about the inheritance registry, checked under SpecR *)

\* The kinds of the edges on the walk from cls up to ancestor.
RECURSIVE PathKinds(_, _)
PathKinds(cls, ancestor) ==
    IF cls = ancestor THEN {}
    ELSE LET b == FirstEdge(cls, ancestor)
         IN {direct_kind(cls, b)} \cup PathKinds(b, ancestor)

MostRestrictive(levels) == CHOOSE l \in levels : \A k \in levels : Rank(l) >= Rank(k)

\* C27: the effective visibility is the most restrictive of the declared
\* level and the kinds of the edges on the path from the instance type up to
\* the declaring type: never less restrictive than the declared level, the
\* declared level when every edge is Public, at least Protected when some
\* edge is Protected, Private as soon as one edge is Private.
C27_EffectiveVisibility ==
    \A instance_type \in Classes, declaring_type \in Classes, declared_level \in AccessLevel :
        issubclass(instance_type, declaring_type)
            => LET ev == effective_visibility(instance_type, MemberName[declaring_type],
                                              declared_level, declaring_type)
                   kinds == PathKinds(instance_type, declaring_type)
               IN /\ ev = MostRestrictive({declared_level} \cup kinds)
                  /\ Rank(ev) >= Rank(declared_level)
                  /\ kinds \subseteq {PUBLIC} => ev = declared_level
                  /\ PROTECTED \in kinds => Rank(ev) >= Rank(PROTECTED)
                  /\ PRIVATE \in kinds => ev = PRIVATE

\* D reaches A over a Private edge followed by a Protected one: A's Public
\* member is Private on a D instance and Protected on a B instance.
C27_Witness ==
    /\ direct_kind("D", "B") = PRIVATE
    /\ direct_kind("B", "A") = PROTECTED
    /\ effective_visibility("D", MemberName["A"], PUBLIC, "A") = PRIVATE
    /\ effective_visibility("B", MemberName["A"], PUBLIC, "A") = PROTECTED

\* The dict a class owns itself (its __dict__ entry), empty when it has none.
OwnInfo(cls) ==
    IF cls \in DOMAIN _inheritance_info THEN _inheritance_info[cls] ELSE EmptyDict

\* C30: applying an inheritance decorator to a class changes the recorded
\* edges of that class only: the records every other class owns, those of an
\* already decorated base included, are what they were.
C30_OnlyOwnEdgesChange ==
    [][(last = Idle /\ last'.op = "inherit")
        => \A c \in Classes \ {last'.derived_class} : OwnInfo(c)' = OwnInfo(c)]_vars

-----------------------------------------------------------------------------
(* Claims about the caller-identity resolver, checked under SpecT *)

\* The caller a resolver reports that names, for the nearest frame with a
\* receiver, the class whose body defines the running method; a frame bound
\* to a class reports that class; without such a frame, nothing.
RECURSIVE DefiningCaller(_, _)
DefiningCaller(frames, i) ==
    IF i = 0 THEN CallerInfo(None, None)
    ELSE IF frames[i].kind \in {PLAIN, METHOD}
    THEN CallerInfo(frames[i].cls, frames[i].name)
    ELSE IF frames[i].kind = CLASS_METHOD
    THEN CallerInfo(frames[i].recv, frames[i].name)
    ELSE DefiningCaller(frames, i - 1)

\* C28: the resolver reports the type whose body defines the method running
\* in the nearest frame with a receiver, also when the receiver is an
\* instance of a derived type that defines a method of the same name, and
\* {None, None} when no frame is attributable.
C28_ResolverReportsDefiningType ==
    last.op = "call"
        => last.resolved = DefiningCaller(stack[MainThread], last.depth)

-----------------------------------------------------------------------------
(* Claims about the static context and the threads, checked under SpecC *)

\* The member is a static method holding a friend grant: its wrapper sets
\* the context to its own identity.
Eligible(member) ==
    member.kind = STATIC /\ _friend_classes(member.owner, NameOf(member)) # {}

OwnIdentity(member) ==
    [caller_class |-> member.owner, caller_method |-> NameOf(member)]

\* C21: the static context is per thread: the context an access check is
\* evaluated with is the one its own thread set (that of the innermost
\* eligible static method running on that thread, or of the member itself),
\* so a check on a thread that runs no friend static method is decided as
\* with no context, whatever the other thread is running.
C21_ContextPerThread ==
    last.op = "call"
        => LET own == ContextOf(stack[last.thread], last.depth)
           IN /\ last.ctx = IF Eligible(last.member) THEN OwnIdentity(last.member)
                            ELSE own
              /\ (last.enforced /\ own = NoContext /\ ~Eligible(last.member))
                    => last.check = Verdict(last.member.owner, last.member.level,
                                            last.caller_info, last.obj, NoContext)

\* The worker, running no static method, has just been denied a member that
\* the context of the friend static method running on the main thread would
\* have opened to it.
C21_Witness ==
    /\ last.op = "call"
    /\ last.thread = "worker"
    /\ last.enforced
    /\ last.caller_info.caller_class = None
    /\ staticmethod_context[MainThread] # NoContext
    /\ Verdict(last.member.owner, last.member.level, last.caller_info, last.obj,
               staticmethod_context[MainThread]) = "True"
    /\ last.check = "False"

\* C29: a check whose caller is unresolved and whose calling code is a
\* function holding no friend grant, called from inside a running friend
\* static method, is decided as it would be with no static context: the
\* static method's identity is not lent to the function.
C29_ContextOnlyForItsStatic ==
    (/\ last.op = "call"
     /\ last.enforced
     /\ last.depth > 0
     /\ stack[last.thread][last.depth].kind = FUNCTION
     /\ <<last.member.owner, stack[last.thread][last.depth].name>> \notin friend_functions
     /\ last.caller_info.caller_class = None
     /\ ~Eligible(last.member)
     /\ ContextOf(stack[last.thread], last.depth) # NoContext)
        => last.check = Verdict(last.member.owner, last.member.level,
                                last.caller_info, last.obj, NoContext)

-----------------------------------------------------------------------------
(* Claims about the registry under parallel threads, checked under SpecP *)

\* The registrations that have returned or are under way.
Registered ==
    granted \cup {<<stack[t][1].target_class, stack[t][1].friend_class>> :
                    t \in {x \in Threads : stack[x] # << >> /\ stack[x][1].kind = REGISTER}}

\* C22: whatever the interleaving of the statements of two threads, every
\* grant whose register_friend has returned is present once no registration
\* is under way, and an is_friend running alongside never raises and answers
\* true only for names that a registration has put or is putting there.
C22_ParallelRegistrationsKept ==
    /\ (\A t \in Threads : stack[t] = << >>)
          => \A p \in granted : is_friend(p[1], p[2])
    /\ last.op = IS_FRIEND
          => /\ last.result \in BOOLEAN
             /\ last.result = TRUE
                   => \E p \in Registered :
                         /\ ClassName[p[1]] = ClassName[last.target_class]
                         /\ ClassName[p[2]] = ClassName[last.caller_class]

====
